---- MODULE Spec2Model ----
(***************************************************************************)
(* Prusa2AnkerPostprocessor: the post-processor that copies PrusaSlicer    *)
(* metadata of a g-code file into an Ankermake header (src/src/main.rs)    *)
(* and the table of metadata properties with its duplicate test            *)
(* (src/src/lib.rs).                                                       *)
(*                                                                         *)
(* Text is modelled as a sequence of bytes, each byte a string: an ASCII   *)
(* character stands for itself, and TAB, CR, LF, xC3, xA9, xFF name the    *)
(* bytes 0x09, 0x0D, 0x0A, 0xC3, 0xA9 (together the two bytes of U+00E9)   *)
(* and 0xFF (never valid in UTF-8).                                        *)
(***************************************************************************)
EXTENDS Integers, Sequences, FiniteSets, TLC

VARIABLES
    args,                \* main: the file paths given on the command line
    argi,                \* main: index of the path for_each handles next
    fs,                  \* the file system: path -> bytes of the file
    given,               \* how each file was written before the run: path -> its lines
    pc,                  \* where the process is: main, scan, create, write, panicked
    lines,               \* process_lines: the Vec<String> of decodable lines
    li,                  \* process_lines: index of the line for_each handles next
    interesting_fields,  \* process_lines: the Vec<InterestingFields>
    new_file_contents,   \* process_file: the String process_lines returned
    stderr,              \* what eprintln! has reported
    abort,               \* why the process panicked ("none" while it has not)
    attribute,           \* the &str handed to an extractor
    shape,               \* how attribute was put together
    result,              \* what the extractor returned (or that it panicked)
    catalog,             \* the property table the duplicate test walks
    ci,                  \* the test's outer iteration index
    test                 \* running, passed or failed

mainVars == <<args, argi, fs, given, pc, lines, li, interesting_fields,
              new_file_contents, stderr, abort>>
extractVars == <<attribute, shape, result>>
catalogVars == <<catalog, ci, test>>
vars == <<mainVars, extractVars, catalogVars>>

-----------------------------------------------------------------------------
(* Bytes and the standard-library string operations the program uses.      *)

TAB == "TAB"
CR == "CR"
LF == "LF"
xC3 == "xC3"
xA9 == "xA9"
xFF == "xFF"

Digits == {"0", "1", "2", "3", "4", "5", "6", "7", "8", "9"}

DigitVal(c) ==
    CASE c = "0" -> 0 [] c = "1" -> 1 [] c = "2" -> 2 [] c = "3" -> 3
      [] c = "4" -> 4 [] c = "5" -> 5 [] c = "6" -> 6 [] c = "7" -> 7
      [] c = "8" -> 8 [] c = "9" -> 9

DigitChar(d) ==
    CASE d = 0 -> "0" [] d = 1 -> "1" [] d = 2 -> "2" [] d = 3 -> "3"
      [] d = 4 -> "4" [] d = 5 -> "5" [] d = 6 -> "6" [] d = 7 -> "7"
      [] d = 8 -> "8" [] d = 9 -> "9"

\* char::is_whitespace, on the bytes of the model
IsWhitespace(c) == c \in {" ", TAB, CR, LF}

\* str::trim
RECURSIVE TrimStart(_)
TrimStart(s) ==
    IF s # <<>> /\ IsWhitespace(Head(s)) THEN TrimStart(Tail(s)) ELSE s

RECURSIVE TrimEnd(_)
TrimEnd(s) ==
    IF s # <<>> /\ IsWhitespace(s[Len(s)])
    THEN TrimEnd(SubSeq(s, 1, Len(s) - 1))
    ELSE s

Trim(s) == TrimEnd(TrimStart(s))

\* str::split(char): the pieces between the occurrences of c, empty ones kept
RECURSIVE Split(_, _)
Split(s, c) ==
    IF \E i \in 1..Len(s) : s[i] = c
    THEN LET i == CHOOSE k \in 1..Len(s) :
                     s[k] = c /\ \A j \in 1..(k - 1) : s[j] # c
         IN  <<SubSeq(s, 1, i - 1)>> \o Split(SubSeq(s, i + 1, Len(s)), c)
    ELSE <<s>>

\* str::starts_with(&str)
StartsWith(s, p) == Len(s) >= Len(p) /\ SubSeq(s, 1, Len(p)) = p

\* str::ends_with(char)
EndsWith(s, c) == s # <<>> /\ s[Len(s)] = c

\* str::strip_suffix of one byte, after ends_with said it is there
StripSuffix(s) == SubSeq(s, 1, Len(s) - 1)

\* the value of a string of decimal digits
RECURSIVE DigitsValue(_)
DigitsValue(s) ==
    IF s = <<>> THEN 0
    ELSE 10 * DigitsValue(SubSeq(s, 1, Len(s) - 1)) + DigitVal(s[Len(s)])

\* u64's Display
RECURSIVE ToDigits(_)
ToDigits(n) ==
    IF n < 10 THEN <<DigitChar(n)>>
    ELSE ToDigits(n \div 10) \o <<DigitChar(n % 10)>>

Ok(n) == [kind |-> "Ok", val |-> n, text |-> <<>>]
MissingValue(s) == [kind |-> "MissingValue", val |-> 0, text |-> s]
StringParsingError(s) == [kind |-> "StringParsingError", val |-> 0, text |-> s]
Panic == [kind |-> "panic", val |-> 0, text |-> <<>>]
NoResult == [kind |-> "none", val |-> 0, text |-> <<>>]

\* str::parse::<u64>: one optional '+', then one or more ASCII digits. (The
\* texts of the model stay far below 2^64, where parse reports an overflow.)
ParseU64(s) ==
    LET body == IF s # <<>> /\ Head(s) = "+" THEN Tail(s) ELSE s
    IN  IF body = <<>> \/ \E i \in 1..Len(body) : body[i] \notin Digits
        THEN StringParsingError(s)
        ELSE Ok(DigitsValue(body))

-----------------------------------------------------------------------------
(* main.rs: the attribute names.                                           *)

PRUSA_ESTIMATED_PRINTING_TIME ==
    <<"e", "s", "t", "i", "m", "a", "t", "e", "d", " ", "p", "r", "i", "n",
      "t", "i", "n", "g", " ", "t", "i", "m", "e">>
PRUSA_FILAMENT_USED_MM ==
    <<"f", "i", "l", "a", "m", "e", "n", "t", " ", "u", "s", "e", "d", " ",
      "[", "m", "m", "]">>
ANKERMAKE_PRINTING_TIME == <<"T", "I", "M", "E">>
ANKERMAKE_FILAMENT_USED_M ==
    <<"F", "i", "l", "a", "m", "e", "n", "t", " ", "u", "s", "e", "d">>
ANKERMAKE_FLAVOUR == <<"F", "L", "A", "V", "O", "R">>

-----------------------------------------------------------------------------
(* main.rs: the extractors.                                                *)

\* attribute.split('=').skip(1).next(), trimmed: the text between the first
\* '=' and the next one (or the end); "none" when there is no '='
ValueOf(attr) ==
    LET parts == Split(attr, "=")
    IN  IF Len(parts) >= 2
        THEN [some |-> TRUE, value |-> Trim(parts[2])]
        ELSE [some |-> FALSE, value |-> <<>>]

\* the closure mapped over the components: the seconds of one component, or
\* a panic (unwrap of a failed parse, or panic!() for an unknown suffix)
ComponentSeconds(value) ==
    LET n == ParseU64(StripSuffix(value))
    IN  IF EndsWith(value, "h")
        THEN IF n.kind = "Ok" THEN Ok(n.val * 60 * 60) ELSE Panic
        ELSE IF EndsWith(value, "m")
        THEN IF n.kind = "Ok" THEN Ok(n.val * 60) ELSE Panic
        ELSE IF EndsWith(value, "s")
        THEN IF n.kind = "Ok" THEN Ok(n.val) ELSE Panic
        ELSE Panic

\* .map(..).sum() over the components, left to right (the sums of the model
\* stay far below 2^64)
RECURSIVE SumComponents(_)
SumComponents(components) ==
    IF components = <<>> THEN Ok(0)
    ELSE LET first == ComponentSeconds(Head(components))
             rest == SumComponents(Tail(components))
         IN  IF first.kind = "panic" \/ rest.kind = "panic" THEN Panic
             ELSE Ok(first.val + rest.val)

\* value.split(' ')
SplitComponents(value) == Split(value, " ")

extract_time_data_as_seconds_FirstOnly(attr) ==
    LET v == ValueOf(attr)
    IN  IF ~v.some THEN MissingValue(attr)
        ELSE ComponentSeconds(Head(SplitComponents(v.value)))

extract_time_data_as_seconds(attr) ==
    LET v == ValueOf(attr)
    IN  IF ~v.some THEN MissingValue(attr)
        ELSE SumComponents(SplitComponents(v.value))

\* value.split('.').collect::<String>()
RECURSIVE Concat(_)
Concat(pieces) ==
    IF pieces = <<>> THEN <<>> ELSE Head(pieces) \o Concat(Tail(pieces))

extract_filament_used_as_um_x10_IntegerPart(attr) ==
    LET v == ValueOf(attr)
    IN  IF ~v.some THEN MissingValue(attr)
        ELSE ParseU64(Head(Split(v.value, ".")))

extract_filament_used_as_um_x10(attr) ==
    LET v == ValueOf(attr)
    IN  IF ~v.some THEN MissingValue(attr)
        ELSE ParseU64(Concat(Split(v.value, ".")))

\* [String]::join(sep)
RECURSIVE Join(_, _)
Join(pieces, sep) ==
    IF pieces = <<>> THEN <<>>
    ELSE IF Len(pieces) = 1 THEN pieces[1]
    ELSE pieces[1] \o sep \o Join(Tail(pieces), sep)

-----------------------------------------------------------------------------
(* The extractors applied to attribute texts put together from parts: a    *)
(* key, optional whitespace, an optional '=', optional whitespace and a    *)
(* value.                                                                  *)

MaxComponents == 3
MaxPad == 1

HourValues == {1, 2}
MinuteValues == {30}
SecondValues == {0, 45}

\* a duration component as PrusaSlicer writes it, with the seconds it stands for
HourComponent(n) ==
    [text |-> ToDigits(n) \o <<"h">>, wf |-> TRUE, unit |-> "h", secs |-> 3600 * n]
MinuteComponent(n) ==
    [text |-> ToDigits(n) \o <<"m">>, wf |-> TRUE, unit |-> "m", secs |-> 60 * n]
SecondComponent(n) ==
    [text |-> ToDigits(n) \o <<"s">>, wf |-> TRUE, unit |-> "s", secs |-> n]
BadComponent(t) == [text |-> t, wf |-> FALSE, unit |-> "", secs |-> 0]

Components ==
    {HourComponent(n) : n \in HourValues}
        \cup {MinuteComponent(n) : n \in MinuteValues}
        \cup {SecondComponent(n) : n \in SecondValues}
        \cup {BadComponent(t) : t \in {<<"1", "0", "x">>, <<"a", "m">>, <<"7">>}}

Separators == {<<" ">>, <<" ", " ">>, <<TAB>>}
BeforeEquals == {<<>>, <<" ">>}
AfterEquals == {<<" ">>, <<TAB>>}

RECURSIVE SumSecs(_)
SumSecs(comps) ==
    IF comps = <<>> THEN 0 ELSE Head(comps).secs + SumSecs(Tail(comps))

\* one or more sound components, no unit twice
SoundComponents(comps) ==
    /\ Len(comps) >= 1
    /\ \A i \in 1..Len(comps) : comps[i].wf
    /\ \A i, j \in 1..Len(comps) : i # j => comps[i].unit # comps[j].unit

DurationShapes ==
    {[kind |-> "duration", eq |-> e, pre |-> p, post |-> q, comps |-> c, sep |-> s,
      value |-> Join([i \in 1..Len(c) |-> c[i].text], s),
      wf |-> SoundComponents(c), units |-> SumSecs(c)] :
        e \in BOOLEAN, p \in BeforeEquals, q \in AfterEquals, s \in Separators,
        c \in UNION {[1..n -> Components] : n \in 0..MaxComponents}}

IntegerParts == {0, 7, 2500}
FractionDigits == {0, 5}

Zeros(n) == [i \in 1..n |-> "0"]

\* a length as PrusaSlicer writes it: digits, '.', two digits
LengthShapes ==
    {[kind |-> "length", eq |-> e, pre |-> p, post |-> q, comps |-> <<>>, sep |-> <<>>,
      value |-> Zeros(z) \o ToDigits(ip) \o <<".">> \o <<DigitChar(d1), DigitChar(d2)>>,
      wf |-> TRUE, units |-> 100 * ip + 10 * d1 + d2] :
        e \in BOOLEAN, p \in BeforeEquals, q \in AfterEquals, z \in 0..MaxPad,
        ip \in IntegerParts, d1 \in FractionDigits, d2 \in FractionDigits}

OddValues ==
    {<<>>, <<".">>, <<"2", "5", "0", "0">>, <<"2", ".", "5", ".", "0", "0">>,
     <<"+", "2", "5", ".", "0", "0">>, <<"-", "2", "5", ".", "0", "0">>,
     <<"2", "a", ".", "0", "0">>, <<"2", "5", " ", ".", "0", "0">>,
     <<"2", "5", ".", "0", "0", "=", "z", "z">>}

OddShapes ==
    {[kind |-> "length", eq |-> e, pre |-> p, post |-> q, comps |-> <<>>, sep |-> <<>>,
      value |-> v, wf |-> FALSE, units |-> 0] :
        e \in BOOLEAN, p \in BeforeEquals, q \in AfterEquals, v \in OddValues}

Shapes == DurationShapes \cup LengthShapes \cup OddShapes

AttributeOf(sh) ==
    (IF sh.kind = "duration" THEN PRUSA_ESTIMATED_PRINTING_TIME
                             ELSE PRUSA_FILAMENT_USED_MM)
        \o sh.pre \o (IF sh.eq THEN <<"=">> ELSE <<>>) \o sh.post \o sh.value

NoShape ==
    [kind |-> "none", eq |-> FALSE, pre |-> <<>>, post |-> <<>>, comps |-> <<>>,
     sep |-> <<>>, value |-> <<>>, wf |-> FALSE, units |-> 0]
NoCall == [fn |-> "none", ret |-> NoResult]

ExtractIdle == attribute = <<>> /\ shape = NoShape /\ result = NoCall

CallExtractTime ==
    /\ result.fn = "none"
    /\ result' = [fn |-> "time", ret |-> extract_time_data_as_seconds(attribute)]
    /\ UNCHANGED <<attribute, shape, mainVars, catalogVars>>

CallExtractFilament ==
    /\ result.fn = "none"
    /\ result' = [fn |-> "filament", ret |-> extract_filament_used_as_um_x10(attribute)]
    /\ UNCHANGED <<attribute, shape, mainVars, catalogVars>>

-----------------------------------------------------------------------------
(* lib.rs: the table of metadata properties and its duplicate test.        *)

Constant(n, v) ==
    [variant |-> "Constant", name |-> n, value |-> v, prusa |-> <<>>, anker |-> <<>>]
Field(p, a) ==
    [variant |-> "Field", name |-> <<>>, value |-> <<>>, prusa |-> p, anker |-> a]

METADATA_PROPERTIES ==
    << Constant(<<"F", "L", "A", "V", "O", "R">>, <<"M", "a", "r", "l", "i", "n">>),
       Constant(<<"P", "r", "i", "n", "t", " ", "M", "o", "d", "e">>,
                <<"f", "a", "s", "t">>),
       Constant(<<"C", "o", "m", "p", "i", "l", "e", "M", "o", "d", "e">>,
                <<"E", "x", "e", "c", "u", "t", "a", "b", "l", "e", " ", "F", "i",
                  "l", "e">>),
       Field(<<"f", "i", "l", "a", "m", "e", "n", "t", "_", "s", "e", "t", "t", "i",
               "n", "g", "s", "_", "i", "d">>,
             <<"F", "i", "l", "a", "m", "e", "n", "t", " ", "N", "a", "m", "e">>),
       Field(<<"n", "o", "z", "z", "l", "e", "_", "d", "i", "a", "m", "e", "t", "e",
               "r">>,
             <<"M", "a", "c", "h", "i", "n", "e", " ", "N", "o", "z", "z", "l", "e",
               " ", "S", "i", "z", "e">>),
       Field(<<"m", "a", "x", "_", "p", "r", "i", "n", "t", "_", "s", "p", "e", "e",
               "d">>,
             <<"M", "A", "X", "S", "P", "E", "E", "D">>) >>

\* the test's first match: the name the Ankermake expects for a property
anker_field_name_ConstantsOnly(property) ==
    IF property.variant = "Constant" THEN property.name ELSE property.prusa

anker_field_name(property) ==
    IF property.variant = "Constant" THEN property.name ELSE property.anker

\* the test's filter(..).count(): how many properties of the table carry the name
CountNamed(table, name) ==
    Cardinality({j \in 1..Len(table) : anker_field_name(table[j]) = name})

\* one pass of the outer for_each whose assert_eq!(1, count) holds
AssertHolds ==
    /\ test = "running"
    /\ ci <= Len(catalog)
    /\ CountNamed(catalog, anker_field_name(catalog[ci])) = 1
    /\ ci' = ci + 1
    /\ UNCHANGED <<catalog, test, mainVars, extractVars>>

\* one pass of the outer for_each whose assert_eq!(1, count) fails: the test panics
AssertFails ==
    /\ test = "running"
    /\ ci <= Len(catalog)
    /\ CountNamed(catalog, anker_field_name(catalog[ci])) # 1
    /\ test' = "failed"
    /\ UNCHANGED <<catalog, ci, mainVars, extractVars>>

\* the for_each is over: the test returns
TestReturns ==
    /\ test = "running"
    /\ ci > Len(catalog)
    /\ test' = "passed"
    /\ UNCHANGED <<catalog, ci, mainVars, extractVars>>

MaxEdits == 1

\* a copy of the table with the output name of entry i changed to k
WithName(table, i, k) ==
    [table EXCEPT ![i] = IF @.variant = "Constant" THEN [@ EXCEPT !.name = k]
                                                   ELSE [@ EXCEPT !.anker = k]]

NamePool ==
    {IF METADATA_PROPERTIES[i].variant = "Constant" THEN METADATA_PROPERTIES[i].name
                                                    ELSE METADATA_PROPERTIES[i].anker :
        i \in 1..Len(METADATA_PROPERTIES)} \cup {ANKERMAKE_PRINTING_TIME}

RECURSIVE EditedCopies(_)
EditedCopies(n) ==
    IF n = 0 THEN {METADATA_PROPERTIES}
    ELSE LET prev == EditedCopies(n - 1)
         IN  prev \cup {WithName(t, i, k) :
                           t \in prev, i \in 1..Len(METADATA_PROPERTIES), k \in NamePool}

CatalogIdle == catalog = METADATA_PROPERTIES /\ ci = 1 /\ test = "idle"

-----------------------------------------------------------------------------
(* main.rs: InterestingFields and its rendering.                           *)

Time(seconds) == [variant |-> "Time", n |-> seconds, s |-> <<>>]
FilamentUsed(length_umx10) == [variant |-> "FilamentUsed", n |-> length_umx10, s |-> <<>>]
Flavour(flavour) == [variant |-> "Flavour", n |-> 0, s |-> flavour]

RECURSIVE StripZeros(_)
StripZeros(s) ==
    IF s # <<>> /\ s[Len(s)] = "0" THEN StripZeros(SubSeq(s, 1, Len(s) - 1)) ELSE s

\* f64's Display of (n as f64) / 100000.0: the shortest decimal that reads back
\* as the same f64, which for the lengths of the model is n / 10^5 written out
\* without trailing zeros (and without a point when nothing follows it)
FormatMeters_FiveDecimals(n) ==
    LET frac == ToDigits(n % 100000)
    IN  ToDigits(n \div 100000) \o <<".">> \o Zeros(5 - Len(frac)) \o frac

FormatMeters(n) ==
    LET whole == ToDigits(n \div 100000)
        frac == ToDigits(n % 100000)
        padded == Zeros(5 - Len(frac)) \o frac
    IN  IF n % 100000 = 0 THEN whole ELSE whole \o <<".">> \o StripZeros(padded)

to_string(val) ==
    IF val.variant = "Time"
    THEN <<";">> \o ANKERMAKE_PRINTING_TIME \o <<":">> \o ToDigits(val.n)
    ELSE IF val.variant = "FilamentUsed"
    THEN <<";">> \o ANKERMAKE_FILAMENT_USED_M \o <<":", " ">> \o FormatMeters(val.n)
             \o <<"m">>
    ELSE <<";">> \o ANKERMAKE_FLAVOUR \o <<":">> \o val.s

-----------------------------------------------------------------------------
(* main.rs: process_lines, process_file and main.                          *)

\* whether a line's bytes are UTF-8 (of the bytes of the model)
IsUtf8(s) ==
    \A i \in 1..Len(s) :
        /\ s[i] # xFF
        /\ s[i] = xC3 => (i < Len(s) /\ s[i + 1] = xA9)
        /\ s[i] = xA9 => (i > 1 /\ s[i - 1] = xC3)

\* str::is_char_boundary(index), index counted from 0
IsCharBoundary(s, index) ==
    \/ index = 0
    \/ index = Len(s)
    \/ index < Len(s) /\ s[index + 1] # xA9

\* BufRead::lines(): the text up to each LF, without the LF and without one CR
\* before it; what follows the last LF is a line unless it is empty; a line
\* that is not UTF-8 is an Err item
ReadLines(bytes) ==
    LET pieces == Split(bytes, LF)
        kept == IF pieces[Len(pieces)] = <<>>
                THEN SubSeq(pieces, 1, Len(pieces) - 1)
                ELSE pieces
        chomp(t) == IF EndsWith(t, CR) THEN StripSuffix(t) ELSE t
        raw(i) == IF i < Len(pieces) THEN chomp(kept[i]) ELSE kept[i]
    IN  [i \in 1..Len(kept) |-> [ok |-> IsUtf8(raw(i)), text |-> raw(i)]]

\* lines.into_iter().flatten().collect(): the Ok items
DecodedLines(items) ==
    LET oks == SelectSeq(items, LAMBDA it : it.ok)
    IN  [i \in 1..Len(oks) |-> oks[i].text]

Marlin == <<"M", "a", "r", "l", "i", "n">>

\* the vec! process_lines starts from
InitialFields_None == <<>>

InitialFields == <<Flavour(Marlin)>>

Pushed(fields) == [panic |-> "none", push |-> fields]
Panicked(cause) == [panic |-> cause, push |-> <<>>]

\* .unwrap() of an extractor's result, pushed as the given field
Unwrapped(r, asTime) ==
    IF r.kind = "Ok"
    THEN Pushed(<<IF asTime THEN Time(r.val) ELSE FilamentUsed(r.val)>>)
    ELSE Panicked("parse")

\* the closure of lines.iter().for_each: what one line pushes, or its panic
FieldsOfLine_TimeOnly(line) ==
    IF Len(line) > 3 /\ IsCharBoundary(line, 2)
           /\ StartsWith(SubSeq(line, 3, Len(line)), PRUSA_ESTIMATED_PRINTING_TIME)
    THEN Unwrapped(extract_time_data_as_seconds(SubSeq(line, 3, Len(line))), TRUE)
    ELSE Pushed(<<>>)

FieldsOfLine_NoSkip(line) ==
    IF StartsWith(line, PRUSA_ESTIMATED_PRINTING_TIME)
    THEN Unwrapped(extract_time_data_as_seconds(line), TRUE)
    ELSE IF StartsWith(line, PRUSA_FILAMENT_USED_MM)
    THEN Unwrapped(extract_filament_used_as_um_x10(line), FALSE)
    ELSE Pushed(<<>>)

FieldsOfLine(line) ==
    IF Len(line) > 3
    THEN IF ~IsCharBoundary(line, 2) THEN Panicked("slice")
         ELSE LET trimmed_line == SubSeq(line, 3, Len(line))
              IN  IF StartsWith(trimmed_line, PRUSA_ESTIMATED_PRINTING_TIME)
                  THEN Unwrapped(extract_time_data_as_seconds(trimmed_line), TRUE)
                  ELSE IF StartsWith(trimmed_line, PRUSA_FILAMENT_USED_MM)
                  THEN Unwrapped(extract_filament_used_as_um_x10(trimmed_line), FALSE)
                  ELSE Pushed(<<>>)
    ELSE Pushed(<<>>)

\* the rendered fields, then the lines, joined by "\n"
FileContents_Unmatched(fields, ls) ==
    Join([i \in 1..Len(fields) |-> to_string(fields[i])]
             \o SelectSeq(ls, LAMBDA l : FieldsOfLine(l).push = <<>>), <<LF>>)

FileContents(fields, ls) ==
    Join([i \in 1..Len(fields) |-> to_string(fields[i])] \o ls, <<LF>>)

Paths == {"a.gcode", "b.gcode"}

Running == pc = "main" /\ argi <= Len(args)

\* main's for_each takes the next path; process_file cannot open it, reports
\* that and returns
OpenFails ==
    /\ Running
    /\ stderr' = Append(stderr, [path |-> args[argi], error |-> "open"])
    /\ argi' = argi + 1
    /\ UNCHANGED <<args, fs, given, pc, lines, li, interesting_fields,
                   new_file_contents, abort, extractVars, catalogVars>>

\* main's for_each takes the next path; process_file opens it and process_lines
\* collects the decodable lines
OpenReads ==
    /\ Running
    /\ lines' = DecodedLines(ReadLines(fs[args[argi]]))
    /\ interesting_fields' = InitialFields
    /\ li' = 1
    /\ pc' = "scan"
    /\ UNCHANGED <<args, argi, fs, given, new_file_contents, stderr, abort,
                   extractVars, catalogVars>>

\* one pass of process_lines' for_each
ScanLine ==
    /\ pc = "scan"
    /\ li <= Len(lines)
    /\ LET got == FieldsOfLine(lines[li])
       IN  IF got.panic # "none"
           THEN /\ pc' = "panicked"
                /\ abort' = got.panic
                /\ UNCHANGED <<li, interesting_fields>>
           ELSE /\ interesting_fields' = interesting_fields \o got.push
                /\ li' = li + 1
                /\ UNCHANGED <<pc, abort>>
    /\ UNCHANGED <<args, argi, fs, given, lines, new_file_contents, stderr,
                   extractVars, catalogVars>>

\* process_lines returns the new contents
ReturnContents ==
    /\ pc = "scan"
    /\ li > Len(lines)
    /\ new_file_contents' = FileContents(interesting_fields, lines)
    /\ pc' = "create"
    /\ UNCHANGED <<args, argi, fs, given, lines, li, interesting_fields, stderr,
                   abort, extractVars, catalogVars>>

\* File::create fails: reported, process_file returns
CreateFails ==
    /\ pc = "create"
    /\ stderr' = Append(stderr, [path |-> args[argi], error |-> "create"])
    /\ argi' = argi + 1
    /\ pc' = "main"
    /\ UNCHANGED <<args, fs, given, lines, li, interesting_fields,
                   new_file_contents, abort, extractVars, catalogVars>>

\* File::create truncates the file
CreateTruncates ==
    /\ pc = "create"
    /\ fs' = [fs EXCEPT ![args[argi]] = <<>>]
    /\ pc' = "write"
    /\ UNCHANGED <<args, argi, given, lines, li, interesting_fields,
                   new_file_contents, stderr, abort, extractVars, catalogVars>>

\* write_all succeeds; process_file returns
WriteAll ==
    /\ pc = "write"
    /\ fs' = [fs EXCEPT ![args[argi]] = new_file_contents]
    /\ argi' = argi + 1
    /\ pc' = "main"
    /\ UNCHANGED <<args, given, lines, li, interesting_fields, new_file_contents,
                   stderr, abort, extractVars, catalogVars>>

\* write_all fails and its unwrap panics
WriteFails ==
    /\ pc = "write"
    /\ pc' = "panicked"
    /\ abort' = "write"
    /\ UNCHANGED <<args, argi, fs, given, lines, li, interesting_fields,
                   new_file_contents, stderr, extractVars, catalogVars>>

-----------------------------------------------------------------------------
(* The files the runs start from.                                          *)

MaxLines == 2
MaxArgs == 2

LineGenerated ==
    <<";", " ", "g", "e", "n", "e", "r", "a", "t", "e", "d", " ", "b", "y", " ",
      "S", "l", "i", "c", "e", "r">>
LineTime ==
    <<";", " ">> \o PRUSA_ESTIMATED_PRINTING_TIME
        \o <<" ", "=", " ", "1", "h", " ", "3", "0", "m", " ", "0", "s">>
LineFilament ==
    <<";", " ">> \o PRUSA_FILAMENT_USED_MM
        \o <<" ", "=", " ", "2", "5", "0", "0", ".", "0", "0">>
LineMove == <<"G", "1", " ", "X", "1", "0", " ", "Y", "1", "0">>
LineTime45 ==
    <<";", " ">> \o PRUSA_ESTIMATED_PRINTING_TIME \o <<" ", "=", " ", "4", "5", "s">>
LineTimeBad ==
    <<";", " ">> \o PRUSA_ESTIMATED_PRINTING_TIME \o <<" ", "=", " ", "1", "0", "x">>
LineFilamentBad ==
    <<";", " ">> \o PRUSA_FILAMENT_USED_MM \o <<" ", "=", " ", "a", "b", "c">>
LineTimeNoValue == <<";", " ">> \o PRUSA_ESTIMATED_PRINTING_TIME
LineTimeNoPrefix == PRUSA_ESTIMATED_PRINTING_TIME \o <<" ", "=", " ", "2", "h">>
LineTimeAccent == <<xC3, xA9>> \o PRUSA_ESTIMATED_PRINTING_TIME \o <<"=", "2", "h">>
LineSplitAccent == <<";", xC3, xA9, " ", "o", "k">>
LineUndecodable == <<"G", "1", " ", xFF>>
LineShort == <<";">>
LineEmpty == <<>>

Pool ==
    {LineGenerated, LineTime, LineFilament, LineMove, LineTime45, LineTimeBad,
     LineFilamentBad, LineTimeNoValue, LineTimeNoPrefix, LineTimeAccent,
     LineSplitAccent, LineUndecodable, LineShort, LineEmpty}

EndToEnd == <<LineGenerated, LineTime, LineFilament, LineMove>>

\* a file as it was written: its lines, the line ending, and whether the last
\* line is ended too
Writing(ls, e, f) == [lines |-> ls, eol |-> e, final |-> f]

Written(g) == Join(g.lines, g.eol) \o (IF g.final THEN g.eol ELSE <<>>)

Proper(g) ==
    /\ g.lines = <<>> => ~g.final
    /\ (g.lines # <<>> /\ ~g.final) => g.lines[Len(g.lines)] # <<>>

RichWritings ==
    {g \in {Writing(ls, e, f) :
                ls \in UNION {[1..n -> Pool] : n \in 0..MaxLines},
                e \in {<<LF>>, <<CR, LF>>}, f \in BOOLEAN} : Proper(g)}

BatchWritings ==
    {Writing(EndToEnd, <<LF>>, TRUE), Writing(EndToEnd, <<LF>>, FALSE),
     Writing(<<LineGenerated, LineTimeBad>>, <<LF>>, TRUE)}

OtherWriting == Writing(<<LineMove>>, <<LF>>, TRUE)

ArgLists == UNION {[1..n -> Paths] : n \in 0..MaxArgs}

MainIdle ==
    /\ args = <<>> /\ argi = 1 /\ pc = "idle"
    /\ given = [p \in Paths |-> Writing(<<>>, <<LF>>, FALSE)]
    /\ fs = [p \in Paths |-> <<>>]
    /\ lines = <<>> /\ li = 1 /\ interesting_fields = <<>>
    /\ new_file_contents = <<>> /\ stderr = <<>> /\ abort = "none"

-----------------------------------------------------------------------------
(* The specifications.                                                     *)

\* the post-processor run on a list of paths
Init ==
    /\ given \in {[p \in Paths |-> IF p = "a.gcode" THEN g ELSE OtherWriting] :
                     g \in RichWritings \cup BatchWritings}
    /\ args \in ArgLists
    /\ given["a.gcode"] \notin BatchWritings => args = <<"a.gcode">>
    /\ fs = [p \in Paths |-> Written(given[p])]
    /\ argi = 1 /\ pc = "main"
    /\ lines = <<>> /\ li = 1 /\ interesting_fields = <<>>
    /\ new_file_contents = <<>> /\ stderr = <<>> /\ abort = "none"
    /\ ExtractIdle /\ CatalogIdle

Next ==
    \/ OpenFails
    \/ OpenReads
    \/ ScanLine
    \/ ReturnContents
    \/ CreateFails
    \/ CreateTruncates
    \/ WriteAll
    \/ WriteFails

Spec == Init /\ [][Next]_vars

\* an extractor applied to one attribute text
InitExtract ==
    /\ shape \in Shapes
    /\ attribute = AttributeOf(shape)
    /\ result = NoCall
    /\ MainIdle /\ CatalogIdle

NextExtract == CallExtractTime \/ CallExtractFilament

SpecExtract == InitExtract /\ [][NextExtract]_vars

\* the duplicate test run on the table, or on an edited copy of it
InitCatalog ==
    /\ catalog \in EditedCopies(MaxEdits)
    /\ ci = 1
    /\ test = "running"
    /\ MainIdle /\ ExtractIdle

NextCatalog == AssertHolds \/ AssertFails \/ TestReturns

SpecCatalog == InitCatalog /\ [][NextCatalog]_vars

-----------------------------------------------------------------------------
(* The output of process_lines, seen as lines.                             *)

OutLines == Split(new_file_contents, LF)
HeaderLines == SubSeq(OutLines, 1, Len(OutLines) - Len(lines))
Rendered(fields) == [i \in 1..Len(fields) |-> to_string(fields[i])]

\* the file now handled is still as it was written
AsGiven == pc = "create" /\ fs[args[argi]] = Written(given[args[argi]])
GivenLines == SelectSeq(given[args[argi]].lines, IsUtf8)

\* a line without its first two characters / without its first two bytes
DropCharacter(t) ==
    IF t = <<>> THEN <<>>
    ELSE IF Head(t) = xC3 THEN SubSeq(t, 3, Len(t)) ELSE Tail(t)
AfterTwoCharacters(line) == DropCharacter(DropCharacter(line))
AfterTwoBytes(line) == SubSeq(line, 3, Len(line))
Content(line, byBytes) ==
    IF byBytes THEN AfterTwoBytes(line) ELSE AfterTwoCharacters(line)

HasTimeKey(line, byBytes) ==
    StartsWith(Content(line, byBytes), PRUSA_ESTIMATED_PRINTING_TIME)
HasFilamentKey(line, byBytes) ==
    StartsWith(Content(line, byBytes), PRUSA_FILAMENT_USED_MM)

\* the rendered value of a line that carries a source key
RenderedValue(line, byBytes) ==
    IF HasTimeKey(line, byBytes)
    THEN to_string(Time(extract_time_data_as_seconds(Content(line, byBytes)).val))
    ELSE to_string(FilamentUsed(
             extract_filament_used_as_um_x10(Content(line, byBytes)).val))

\* the rendered values of the lines of ls that carry a source key, in their order
FieldLines(ls, byBytes) ==
    LET carrying == SelectSeq([i \in 1..Len(ls) |-> i],
                              LAMBDA i : \/ HasTimeKey(ls[i], byBytes)
                                         \/ HasFilamentKey(ls[i], byBytes))
    IN  [k \in 1..Len(carrying) |-> RenderedValue(ls[carrying[k]], byBytes)]

\* C1: when process_lines returns, its output split at the newlines is the
\* header lines followed by every decodable line of the input file, unchanged
\* and in the file's order, the lines that carried a source key included.
C1_BodyIsEveryInputLine ==
    AsGiven => OutLines = Rendered(interesting_fields) \o GivenLines

C1_Witness ==
    /\ AsGiven
    /\ given[args[argi]].lines = <<LineTime, LineUndecodable>>
    /\ OutLines = <<to_string(Flavour(Marlin)), to_string(Time(5400)), LineTime>>

\* C2 as stated: the header lines after the first are the rendered values of
\* the lines that begin, after their first two characters, with a source key.
C2_FieldsOfLinesByCharacters ==
    pc = "create" => Tail(HeaderLines) = FieldLines(lines, FALSE)

\* C2 as amended: the header lines after the first are the rendered values of
\* the lines that begin, after their first two bytes, with a source key, in
\* the order of those lines; a line without a source key there adds nothing.
C2_FieldsOfLinesByBytes ==
    pc = "create" => Tail(HeaderLines) = FieldLines(lines, TRUE)

C2_Witness ==
    /\ pc = "create"
    /\ lines = EndToEnd
    /\ Tail(HeaderLines) = <<to_string(Time(5400)), to_string(FilamentUsed(250000))>>

\* the line of a Constant entry of the table
ConstantLine(property) == <<";">> \o property.name \o <<":">> \o property.value
ConstantLines(table) ==
    LET cs == SelectSeq(table, LAMBDA property : property.variant = "Constant")
    IN  [i \in 1..Len(cs) |-> ConstantLine(cs[i])]

\* C3 as stated: the header starts with the line of every Constant entry of
\* METADATA_PROPERTIES, in the table's order.
C3_HeaderStartsWithEveryConstant ==
    pc = "create" =>
        LET n == Len(ConstantLines(METADATA_PROPERTIES))
        IN  /\ Len(HeaderLines) >= n
            /\ SubSeq(HeaderLines, 1, n) = ConstantLines(METADATA_PROPERTIES)

\* C3 as amended: the header starts with the line of the first Constant entry,
\* ;FLAVOR:Marlin, and no other header line is a Constant's line: every later
\* one is a ;TIME: or a ;Filament used: line. This holds for the empty input too.
C3_HeaderStartsWithFlavourOnly ==
    pc = "create" =>
        /\ HeaderLines # <<>>
        /\ HeaderLines[1] = ConstantLines(METADATA_PROPERTIES)[1]
        /\ \A i \in 2..Len(HeaderLines) :
               \/ StartsWith(HeaderLines[i], <<";">> \o ANKERMAKE_PRINTING_TIME \o <<":">>)
               \/ StartsWith(HeaderLines[i], <<";">> \o ANKERMAKE_FILAMENT_USED_M \o <<":">>)

C3_Witness ==
    /\ pc = "create"
    /\ lines = <<>>
    /\ new_file_contents = <<";", "F", "L", "A", "V", "O", "R", ":", "M", "a", "r", "l", "i", "n">>

\* the output key of a header line: what stands between its ';' and its first ':'
KeyOfLine(line) == Tail(Split(line, ":")[1])
LinesWithKey(key) == {i \in 1..Len(HeaderLines) : KeyOfLine(HeaderLines[i]) = key}

C8_BadValueAbandonsOnlyItsFile ==
    ~(pc = "panicked" /\ abort = "parse" /\ argi < Len(args))

\* the header of the end-to-end scenario
Triple ==
    << <<";", "F", "L", "A", "V", "O", "R", ":", "M", "a", "r", "l", "i", "n">>,
       <<";", "T", "I", "M", "E", ":", "5", "4", "0", "0">>,
       <<";", "F", "i", "l", "a", "m", "e", "n", "t", " ", "u", "s", "e", "d", ":", " ",
         "2", ".", "5", "m">> >>

\* a.gcode held the end-to-end input and has been rewritten n times
RewrittenTimes(n) ==
    /\ pc = "main"
    /\ argi = n + 1
    /\ Len(args) >= n
    /\ \A i \in 1..n : args[i] = "a.gcode"
    /\ stderr = <<>>
    /\ given["a.gcode"].lines = EndToEnd

-----------------------------------------------------------------------------
(* The extractors' results.                                                *)

TimeCase == result.fn = "time" /\ shape.kind = "duration" /\ shape.eq

\* C4 as stated: a key, '=', and sound components with whitespace between
\* them give Ok of the sum of their seconds.
C4_SumOfWhitespaceSeparated ==
    (TimeCase /\ shape.wf) => result.ret = Ok(shape.units)

\* C4 as amended: a key, '=', and sound components with exactly one space
\* between them give Ok of the sum of their seconds, 3600*h + 60*m + s.
C4_SumOfSpaceSeparated ==
    (TimeCase /\ shape.wf /\ (Len(shape.comps) = 1 \/ shape.sep = <<" ">>))
        => result.ret = Ok(shape.units)

C4_Witness ==
    /\ result.fn = "time"
    /\ shape.value = <<"1", "h", " ", "3", "0", "m", " ", "0", "s">>
    /\ shape.eq
    /\ result.ret = Ok(5400)

HasEquals(attr) == \E i \in 1..Len(attr) : attr[i] = "="
FirstEquals(attr) ==
    CHOOSE i \in 1..Len(attr) : attr[i] = "=" /\ \A j \in 1..(i - 1) : attr[j] # "="
AfterFirstEquals(attr) == SubSeq(attr, FirstEquals(attr) + 1, Len(attr))
UpToNextEquals(t) == IF HasEquals(t) THEN SubSeq(t, 1, FirstEquals(t) - 1) ELSE t
WithoutPoints(t) == SelectSeq(t, LAMBDA c : c # ".")
SignedDigits(t) ==
    LET d == IF t # <<>> /\ t[1] = "+" THEN Tail(t) ELSE t
    IN  d # <<>> /\ \A i \in 1..Len(d) : d[i] \in Digits

\* C5: extract_time_data_as_seconds never ends the process: without an '=' it
\* returns MissingValue of the text, and with a component that has an unknown
\* suffix or no number before its suffix it returns a StringParsingError.
C5_TimeReturnsErrorValues ==
    result.fn = "time" =>
        /\ result.ret.kind # "panic"
        /\ ~HasEquals(attribute) => result.ret = MissingValue(attribute)
        /\ (/\ shape.kind = "duration"
            /\ shape.eq
            /\ \E i \in 1..Len(shape.comps) : ~shape.comps[i].wf)
               => result.ret.kind = "StringParsingError"

LengthCase == result.fn = "filament" /\ shape.kind = "length" /\ shape.eq /\ shape.wf

\* C6 as stated: digits, '.', two digits give Ok of the digits read as one
\* number; no '=' gives MissingValue; a value with anything but digits and
\* the point gives StringParsingError.
C6_LengthOrErrorByContent ==
    result.fn = "filament" =>
        /\ LengthCase => result.ret = Ok(shape.units)
        /\ ~HasEquals(attribute) => result.ret = MissingValue(attribute)
        /\ (/\ HasEquals(attribute)
            /\ \E i \in 1..Len(Trim(AfterFirstEquals(attribute))) :
                   Trim(AfterFirstEquals(attribute))[i] \notin Digits \cup {"."})
               => result.ret.kind = "StringParsingError"

\* C6 as amended: digits, '.', two digits give Ok of the digits read as one
\* number; no '=' gives MissingValue of the text; and StringParsingError is
\* what a value gives that, taken up to a second '=', trimmed and with its
\* points removed, is not a string of digits with at most a '+' before it.
C6_LengthOrErrorByParse ==
    result.fn = "filament" =>
        /\ LengthCase => result.ret = Ok(shape.units)
        /\ ~HasEquals(attribute) => result.ret = MissingValue(attribute)
        /\ HasEquals(attribute) =>
               LET v == WithoutPoints(Trim(UpToNextEquals(AfterFirstEquals(attribute))))
               IN  ~SignedDigits(v) <=> result.ret = StringParsingError(v)

C6_Witness ==
    /\ result.fn = "filament"
    /\ shape.value = <<"2", "5", "0", "0", ".", "0", "0">>
    /\ shape.eq
    /\ result.ret = Ok(250000)

-----------------------------------------------------------------------------
(* The duplicate test's verdict.                                           *)

OutputKey(table, i) ==
    IF table[i].variant = "Constant" THEN table[i].name ELSE table[i].anker
NoSharedOutputKey(table) ==
    \A i, j \in 1..Len(table) : i # j => OutputKey(table, i) # OutputKey(table, j)

\* C7: no two entries of METADATA_PROPERTIES share an output key, so the test
\* never fails on it; on a copy it passes only if no two entries share an
\* output key and fails only if two do.
C7_TestFailsExactlyOnDuplicates ==
    /\ NoSharedOutputKey(METADATA_PROPERTIES)
    /\ catalog = METADATA_PROPERTIES => test # "failed"
    /\ test = "passed" => NoSharedOutputKey(catalog)
    /\ test = "failed" => ~NoSharedOutputKey(catalog)

C7_Witness ==
    /\ test = "failed"
    /\ catalog = WithName(METADATA_PROPERTIES, 4, ANKERMAKE_FLAVOUR)

====
